---------------------------- MODULE Spec2Model ----------------------------
(***************************************************************************)
(* A model of find_unused.py: the file enumerator (get_files), the content *)
(* loader (read_file), the usage checkers (check_cmake_usage,              *)
(* check_header_usage, the inline asset check) and the report driver       *)
(* (main).  Text is modelled by TLA+ strings: Len, \o and SubSeq act on    *)
(* them as Python's len, + and slicing do.                                 *)
(***************************************************************************)
EXTENDS Integers, Sequences, FiniteSets, TLC

VARIABLES
    fs,              \* the project tree: path -> [text, bad] of every file
    walk,            \* the order in which os.walk(".") yields the files
    pc,              \* position of the run inside main
    out,             \* the arguments of the print calls so far
    handles,         \* the paths of the file objects currently open
    src_files, test_files, header_files, ui_assets,
    src_cmake, tests_cmake,
    all_content, html_content,
    unused_src, unused_tests, unused_headers, unused_assets,
    it,              \* how many items each for-loop has consumed
    call             \* a direct call of one checker: its arguments and result

vars == <<fs, walk, pc, out, handles, src_files, test_files, header_files,
          ui_assets, src_cmake, tests_cmake, all_content, html_content,
          unused_src, unused_tests, unused_headers, unused_assets, it, call>>

env == <<fs, walk>>

\* ----------------------------------------------------------------- bounds

\* At most this many files in the project tree.
MaxFiles == 3

\* At most this many tokens in a text handed to a checker called directly.
MaxTokens == 3

\* ------------------------------------------------------- Python's str API

\* s.startswith(pre)
StartsWith(s, pre) ==
    Len(s) >= Len(pre) /\ SubSeq(s, 1, Len(pre)) = pre

\* s.endswith(suf)
EndsWith(s, suf) ==
    Len(s) >= Len(suf) /\ SubSeq(s, Len(s) - Len(suf) + 1, Len(s)) = suf

\* s.endswith((suf1, suf2, ...))
EndsWithAny(s, sufs) == \E suf \in sufs : EndsWith(s, suf)

\* s[n:]
SliceFrom(s, n) == IF n >= Len(s) THEN "" ELSE SubSeq(s, n + 1, Len(s))

\* The scan behind `needle in hay`: the first offset >= i at which needle
\* matches, tried left to right.
RECURSIVE FindFrom(_, _, _)
FindFrom(needle, hay, i) ==
    IF i + Len(needle) > Len(hay) THEN FALSE
    ELSE IF SubSeq(hay, i + 1, i + Len(needle)) = needle THEN TRUE
    ELSE FindFrom(needle, hay, i + 1)

\* needle in hay
In(needle, hay) == FindFrom(needle, hay, 0)

\* The index of the last "/" of p at or before i, 0 when there is none.
RECURSIVE LastSlash(_, _)
LastSlash(p, i) ==
    IF i = 0 THEN 0
    ELSE IF SubSeq(p, i, i) = "/" THEN i
    ELSE LastSlash(p, i - 1)

\* os.path.basename(p)
basename(p) == SliceFrom(p, LastSlash(p, Len(p)))

\* os.path.dirname(p)
dirname(p) ==
    LET k == LastSlash(p, Len(p)) IN IF k = 0 THEN "" ELSE SubSeq(p, 1, k - 1)

\* ------------------------------------------------------------- checkers

\* A variant that looks for the base name (fname, line 33) instead of the path
\* below the root.
check_cmake_usage_basename(file_path, cmake_content) ==
    IF StartsWith(file_path, "src/") \/ StartsWith(file_path, "tests/")
    THEN In(basename(file_path), cmake_content)
    ELSE FALSE

check_cmake_usage(file_path, cmake_content) ==
    IF StartsWith(file_path, "src/")
    THEN In(SliceFrom(file_path, 4), cmake_content)
    ELSE IF StartsWith(file_path, "tests/")
    THEN In(SliceFrom(file_path, 6), cmake_content)
    ELSE FALSE

\* A variant that knows the quoted include form only.
check_header_usage_quoted_only(header_path, all_source_content) ==
    IF StartsWith(header_path, "include/")
    THEN In("\"" \o SliceFrom(header_path, 8) \o "\"", all_source_content)
    ELSE TRUE

check_header_usage(header_path, all_source_content) ==
    IF StartsWith(header_path, "include/")
    THEN LET include_ref == SliceFrom(header_path, 8) IN
         \/ In("\"" \o include_ref \o "\"", all_source_content)
         \/ In("<" \o include_ref \o ">", all_source_content)
    ELSE TRUE


\* --------------------------------------------------- the project tree

\* A file: the text a lossy decode (errors='ignore') yields, and whether its
\* bytes hold a sequence the text encoding cannot decode.
File(t) == [text |-> t, bad |-> FALSE]
BadFile(t) == [text |-> t, bad |-> TRUE]

\* The files a project tree may hold and, for each, what it may contain.
Options ==
    [p \in {"src/CMakeLists.txt", "tests/CMakeLists.txt", "src/a.c",
            "src/builder/b.cpp", "src/notes.txt", "build/g.c",
            "node_modules/n.h", "tests/t.c", "include/a.h", "include/d/b.hpp",
            "ui/static/app.js", "ui/static/s.css", "ui/index.html"} |->
        CASE p = "src/CMakeLists.txt"   -> {File("ba.c\n"), File("builder/b.cpp\n"),
                                            BadFile("a.c\n")}
          [] p = "tests/CMakeLists.txt" -> {File("t.c\n"), BadFile("t.c\n")}
          [] p = "src/a.c"              -> {File("#include \"a.h\""),
                                            File("#include <d/b.hpp>")}
          [] p = "src/builder/b.cpp"    -> {File("#include \"a.h\"")}
          [] p = "src/notes.txt"        -> {File("a.c")}
          [] p = "build/g.c"            -> {File("#include \"a.h\"")}
          [] p = "node_modules/n.h"     -> {File("#include <d/b.hpp>")}
          [] p = "tests/t.c"            -> {File("#include \"d/b.hpp\""),
                                            BadFile("#include \"b.hpp\"")}
          [] p = "include/a.h"          -> {File("#include \"b.hpp\"")}
          [] p = "include/d/b.hpp"      -> {File("#include <a.h>")}
          [] p = "ui/static/app.js"     -> {File("load('s.css')"), File("run()")}
          [] p = "ui/static/s.css"      -> {File("body {}")}
          [] p = "ui/index.html"        -> {File("<script src=\"static/app.js\">"),
                                            File("<link href=\"static/s.css\">")}]

Paths == DOMAIN Options

\* Every project tree over the paths of S.
RECURSIVE Trees(_)
Trees(S) ==
    IF S = {} THEN {<<>>}
    ELSE LET p == CHOOSE q \in S : TRUE IN
         {(p :> f) @@ t : f \in Options[p], t \in Trees(S \ {p})}

RECURSIVE Perms(_)
Perms(S) ==
    IF S = {} THEN {<<>>}
    ELSE UNION {{<<x>> \o s : s \in Perms(S \ {x})} : x \in S}

\* Directory d is X or lies below X ("" is the project root).
IsUnder(d, X) == X = "" \/ d = X \/ StartsWith(d, X \o "/")

\* X and every directory above it.
AncestorsOrSelf(d) ==
    {""} \cup {SubSeq(d, 1, k) : k \in {j \in 1..Len(d) :
                   j = Len(d) \/ SubSeq(d, j + 1, j + 1) = "/"}}

\* The orders a top-down os.walk can yield the files of S in: the files of a
\* directory come before those of its subdirectories, and each subtree is
\* walked in one stretch; the order of the entries of one directory is the
\* file system's.
WalkOrders(S) ==
    {s \in Perms(S) :
        /\ \A i, j \in 1..Len(s) :
              (dirname(s[i]) # dirname(s[j]) /\ IsUnder(dirname(s[i]), dirname(s[j])))
                  => j < i
        /\ \A i, j, k \in 1..Len(s) :
              (i < j /\ j < k) =>
                  \A X \in AncestorsOrSelf(dirname(s[i])) :
                      IsUnder(dirname(s[k]), X) => IsUnder(dirname(s[j]), X)}

\* ------------------------------------------------------------ get_files

\* A variant without the suffix test of line 9.
get_files_any_extension(directory, extensions) ==
    LET Match(p) == StartsWith(p, directory \o "/")
    IN  SelectSeq(walk, Match)

get_files(directory, extensions) ==
    LET Match(p) == /\ StartsWith(p, directory \o "/")
                    /\ EndsWithAny(basename(p), extensions)
    IN  SelectSeq(walk, Match)

\* The root os.walk(".") reports for the directory of p.
WalkRoot(p) == IF dirname(p) = "" THEN "." ELSE "./" \o dirname(p)

\* The files the aggregate-content loop opens, in order.
AggFiles ==
    LET Match(p) == /\ ~(In("build", WalkRoot(p)) \/ In("node_modules", WalkRoot(p)))
                    /\ EndsWithAny(basename(p), {".cpp", ".c", ".h", ".hpp"})
    IN  SelectSeq(walk, Match)

\* The files the markup loop opens, in order.
HtmlFiles ==
    LET Match(p) == StartsWith(p, "ui/") /\ EndsWith(basename(p), ".html")
    IN  SelectSeq(walk, Match)

\* ------------------------------------------------------------- printing

HeaderSrc    == "--- Unused C++ Source Files ---"
HeaderTests  == "\n--- Unused Test Files ---"
HeaderHdrs   == "\n--- Unused Headers ---"
HeaderAssets == "\n--- Unused Web Assets ---"

NoCall == [fn |-> "none", path |-> "", text |-> "", done |-> FALSE, ret |-> FALSE]

\* The state of main's locals before main has assigned any of them.
Fresh ==
    /\ out = <<>> /\ handles = <<>>
    /\ src_files = <<>> /\ test_files = <<>>
    /\ header_files = <<>> /\ ui_assets = <<>>
    /\ src_cmake = "" /\ tests_cmake = ""
    /\ all_content = "" /\ html_content = ""
    /\ unused_src = <<>> /\ unused_tests = <<>>
    /\ unused_headers = <<>> /\ unused_assets = <<>>
    /\ it = [src |-> 0, tests |-> 0, agg |-> 0, headers |-> 0,
             html |-> 0, assets |-> 0]

\* The script is started in a project tree of at most MaxFiles files.
Init ==
    /\ \E S \in {T \in SUBSET Paths : Cardinality(T) <= MaxFiles} :
          \E w \in WalkOrders(S) :
             /\ walk = w
             /\ fs \in Trees(S)
    /\ pc = "start"
    /\ call = NoCall
    /\ Fresh

\* ------------------------------------------------------------ read_file

\* The file the read_file call at this position of main is given.
ReadPath == IF pc \in {"read_src", "read_src_open"}
            THEN "src/CMakeLists.txt" ELSE "tests/CMakeLists.txt"

\* The position of main after the read_file call returns.
AfterRead == IF pc \in {"read_src", "read_src_open"} THEN "read_tests" ELSE "loop_src"

\* read_file returns content to the assignment that called it.
ReadReturns(content) ==
    IF pc \in {"read_src", "read_src_open"}
    THEN src_cmake' = content /\ UNCHANGED tests_cmake
    ELSE tests_cmake' = content /\ UNCHANGED src_cmake

\* open() succeeds: the with block is entered with the file open.
ReadFileOpen ==
    /\ pc \in {"read_src", "read_tests"}
    /\ ReadPath \in DOMAIN fs
    /\ handles' = Append(handles, ReadPath)
    /\ pc' = IF pc = "read_src" THEN "read_src_open" ELSE "read_tests_open"
    /\ UNCHANGED <<env, out, src_files, test_files, header_files, ui_assets,
                   src_cmake, tests_cmake, all_content, html_content,
                   unused_src, unused_tests, unused_headers, unused_assets,
                   it, call>>

\* open() raises FileNotFoundError, the except clause returns "".
ReadFileMissing ==
    /\ pc \in {"read_src", "read_tests"}
    /\ ReadPath \notin DOMAIN fs
    /\ ReadReturns("")
    /\ pc' = AfterRead
    /\ UNCHANGED <<env, out, handles, src_files, test_files, header_files,
                   ui_assets, all_content, html_content,
                   unused_src, unused_tests, unused_headers, unused_assets,
                   it, call>>

\* A variant without the with block: a read that raises leaves the file open.
ReadFileRead_leaks ==
    /\ pc \in {"read_src_open", "read_tests_open"}
    /\ IF fs[ReadPath].bad
       THEN /\ pc' = "aborted"
            /\ UNCHANGED <<handles, src_cmake, tests_cmake>>
       ELSE /\ ReadReturns(fs[ReadPath].text)
            /\ handles' = SubSeq(handles, 1, Len(handles) - 1)
            /\ pc' = AfterRead
    /\ UNCHANGED <<env, out, src_files, test_files, header_files, ui_assets,
                   all_content, html_content,
                   unused_src, unused_tests, unused_headers, unused_assets,
                   it, call>>

\* f.read() in strict mode, then the with block is left, which closes the
\* file.  Bytes that do not decode raise UnicodeDecodeError, which the except
\* clause does not catch and nothing in main does: the run ends there.
ReadFileRead ==
    /\ pc \in {"read_src_open", "read_tests_open"}
    /\ handles' = SubSeq(handles, 1, Len(handles) - 1)
    /\ IF fs[ReadPath].bad
       THEN /\ pc' = "aborted"
            /\ UNCHANGED <<src_cmake, tests_cmake>>
       ELSE /\ ReadReturns(fs[ReadPath].text)
            /\ pc' = AfterRead
    /\ UNCHANGED <<env, out, src_files, test_files, header_files, ui_assets,
                   all_content, html_content,
                   unused_src, unused_tests, unused_headers, unused_assets,
                   it, call>>

\* ----------------------------------------------------------------- main

\* Lines 53-55: the first header and the two enumerations.
Start ==
    /\ pc = "start"
    /\ out' = Append(out, HeaderSrc)
    /\ src_files' = get_files("src", {".cpp", ".c"})
    /\ test_files' = get_files("tests", {".cpp", ".c"})
    /\ pc' = "read_src"
    /\ UNCHANGED <<env, handles, header_files, ui_assets, src_cmake,
                   tests_cmake, all_content, html_content,
                   unused_src, unused_tests, unused_headers, unused_assets,
                   it, call>>

\* A variant with the append outside the if: every file is appended.
CheckSrc_appends_used ==
    /\ pc = "loop_src"
    /\ it.src < Len(src_files)
    /\ LET f == src_files[it.src + 1] IN
          /\ out' = IF ~check_cmake_usage(f, src_cmake) THEN Append(out, f) ELSE out
          /\ unused_src' = Append(unused_src, f)
    /\ it' = [it EXCEPT !.src = @ + 1]
    /\ UNCHANGED <<env, pc, handles, src_files, test_files, header_files,
                   ui_assets, src_cmake, tests_cmake, all_content,
                   html_content, unused_tests, unused_headers, unused_assets,
                   call>>

\* Lines 61-64: one iteration of the loop over src_files.
CheckSrc ==
    /\ pc = "loop_src"
    /\ it.src < Len(src_files)
    /\ LET f == src_files[it.src + 1] IN
          IF ~check_cmake_usage(f, src_cmake)
          THEN out' = Append(out, f) /\ unused_src' = Append(unused_src, f)
          ELSE UNCHANGED <<out, unused_src>>
    /\ it' = [it EXCEPT !.src = @ + 1]
    /\ UNCHANGED <<env, pc, handles, src_files, test_files, header_files,
                   ui_assets, src_cmake, tests_cmake, all_content,
                   html_content, unused_tests, unused_headers, unused_assets,
                   call>>

\* Lines 66-67: the loop over src_files is exhausted; the second header.
PrintTestsHeader ==
    /\ pc = "loop_src"
    /\ it.src = Len(src_files)
    /\ out' = Append(out, HeaderTests)
    /\ unused_tests' = <<>>
    /\ pc' = "loop_tests"
    /\ UNCHANGED <<env, handles, src_files, test_files, header_files,
                   ui_assets, src_cmake, tests_cmake, all_content,
                   html_content, unused_src, unused_headers, unused_assets,
                   it, call>>

\* Lines 68-71: one iteration of the loop over test_files.
CheckTest ==
    /\ pc = "loop_tests"
    /\ it.tests < Len(test_files)
    /\ LET f == test_files[it.tests + 1] IN
          IF ~check_cmake_usage(f, tests_cmake)
          THEN out' = Append(out, f) /\ unused_tests' = Append(unused_tests, f)
          ELSE UNCHANGED <<out, unused_tests>>
    /\ it' = [it EXCEPT !.tests = @ + 1]
    /\ UNCHANGED <<env, pc, handles, src_files, test_files, header_files,
                   ui_assets, src_cmake, tests_cmake, all_content,
                   html_content, unused_src, unused_headers, unused_assets,
                   call>>

\* Lines 74-78: the loop over test_files is exhausted; the third header, the
\* enumeration of the headers, the empty aggregate.
PrintHeadersHeader ==
    /\ pc = "loop_tests"
    /\ it.tests = Len(test_files)
    /\ out' = Append(out, HeaderHdrs)
    /\ header_files' = get_files("include", {".h", ".hpp"})
    /\ all_content' = ""
    /\ pc' = "agg"
    /\ UNCHANGED <<env, handles, src_files, test_files, ui_assets,
                   src_cmake, tests_cmake, html_content,
                   unused_src, unused_tests, unused_headers, unused_assets,
                   it, call>>

\* Lines 79-83: the walk reaches the next file it does not skip and opens it.
AggOpen ==
    /\ pc = "agg"
    /\ it.agg < Len(AggFiles)
    /\ handles' = Append(handles, AggFiles[it.agg + 1])
    /\ pc' = "agg_open"
    /\ UNCHANGED <<env, out, src_files, test_files, header_files, ui_assets,
                   src_cmake, tests_cmake, all_content, html_content,
                   unused_src, unused_tests, unused_headers, unused_assets,
                   it, call>>

\* Line 84: f.read() with errors='ignore' never raises on bad bytes; the text
\* and a newline are added and the with block closes the file.
AggRead ==
    /\ pc = "agg_open"
    /\ all_content' = all_content \o fs[AggFiles[it.agg + 1]].text \o "\n"
    /\ handles' = SubSeq(handles, 1, Len(handles) - 1)
    /\ it' = [it EXCEPT !.agg = @ + 1]
    /\ pc' = "agg"
    /\ UNCHANGED <<env, out, src_files, test_files, header_files, ui_assets,
                   src_cmake, tests_cmake, html_content,
                   unused_src, unused_tests, unused_headers, unused_assets,
                   call>>

\* Line 86: the walk is exhausted.
AggDone ==
    /\ pc = "agg"
    /\ it.agg = Len(AggFiles)
    /\ unused_headers' = <<>>
    /\ pc' = "loop_headers"
    /\ UNCHANGED <<env, out, handles, src_files, test_files, header_files,
                   ui_assets, src_cmake, tests_cmake, all_content,
                   html_content, unused_src, unused_tests, unused_assets,
                   it, call>>

\* Lines 87-90: one iteration of the loop over header_files.
CheckHeader ==
    /\ pc = "loop_headers"
    /\ it.headers < Len(header_files)
    /\ LET h == header_files[it.headers + 1] IN
          IF ~check_header_usage(h, all_content)
          THEN out' = Append(out, h) /\ unused_headers' = Append(unused_headers, h)
          ELSE UNCHANGED <<out, unused_headers>>
    /\ it' = [it EXCEPT !.headers = @ + 1]
    /\ UNCHANGED <<env, pc, handles, src_files, test_files, header_files,
                   ui_assets, src_cmake, tests_cmake, all_content,
                   html_content, unused_src, unused_tests, unused_assets,
                   call>>

\* Lines 93-97: the loop over header_files is exhausted; the fourth header,
\* the enumeration of the assets, the empty markup aggregate.
PrintAssetsHeader ==
    /\ pc = "loop_headers"
    /\ it.headers = Len(header_files)
    /\ out' = Append(out, HeaderAssets)
    /\ ui_assets' = get_files("ui/static", {".js", ".css"})
    /\ html_content' = ""
    /\ pc' = "html"
    /\ UNCHANGED <<env, handles, src_files, test_files, header_files,
                   src_cmake, tests_cmake, all_content,
                   unused_src, unused_tests, unused_headers, unused_assets,
                   it, call>>

\* Lines 98-101: the walk of ui reaches the next .html file and opens it.
HtmlOpen ==
    /\ pc = "html"
    /\ it.html < Len(HtmlFiles)
    /\ handles' = Append(handles, HtmlFiles[it.html + 1])
    /\ pc' = "html_open"
    /\ UNCHANGED <<env, out, src_files, test_files, header_files, ui_assets,
                   src_cmake, tests_cmake, all_content, html_content,
                   unused_src, unused_tests, unused_headers, unused_assets,
                   it, call>>

\* Line 102: the text and a newline are added, the with block closes the file.
HtmlRead ==
    /\ pc = "html_open"
    /\ html_content' = html_content \o fs[HtmlFiles[it.html + 1]].text \o "\n"
    /\ handles' = SubSeq(handles, 1, Len(handles) - 1)
    /\ it' = [it EXCEPT !.html = @ + 1]
    /\ pc' = "html"
    /\ UNCHANGED <<env, out, src_files, test_files, header_files, ui_assets,
                   src_cmake, tests_cmake, all_content,
                   unused_src, unused_tests, unused_headers, unused_assets,
                   call>>

\* Line 104: the walk of ui is exhausted.
HtmlDone ==
    /\ pc = "html"
    /\ it.html = Len(HtmlFiles)
    /\ unused_assets' = <<>>
    /\ pc' = "loop_assets"
    /\ UNCHANGED <<env, out, handles, src_files, test_files, header_files,
                   ui_assets, src_cmake, tests_cmake, all_content,
                   html_content, unused_src, unused_tests, unused_headers,
                   it, call>>

\* A variant with the check the comment of line 108 considers: a name found in
\* a script counts as a reference.
CheckAsset_also_scripts ==
    /\ pc = "loop_assets"
    /\ it.assets < Len(ui_assets)
    /\ LET asset == ui_assets[it.assets + 1]
           fname == basename(asset)
           scripts == {p \in DOMAIN fs : EndsWith(p, ".js")}
       IN  IF ~In(fname, html_content) /\ \A p \in scripts : ~In(fname, fs[p].text)
           THEN out' = Append(out, asset) /\ unused_assets' = Append(unused_assets, asset)
           ELSE UNCHANGED <<out, unused_assets>>
    /\ it' = [it EXCEPT !.assets = @ + 1]
    /\ UNCHANGED <<env, pc, handles, src_files, test_files, header_files,
                   ui_assets, src_cmake, tests_cmake, all_content,
                   html_content, unused_src, unused_tests, unused_headers,
                   call>>

\* Lines 105-111: one iteration of the loop over ui_assets.
CheckAsset ==
    /\ pc = "loop_assets"
    /\ it.assets < Len(ui_assets)
    /\ LET asset == ui_assets[it.assets + 1]
           fname == basename(asset)
       IN  IF ~In(fname, html_content)
           THEN out' = Append(out, asset) /\ unused_assets' = Append(unused_assets, asset)
           ELSE UNCHANGED <<out, unused_assets>>
    /\ it' = [it EXCEPT !.assets = @ + 1]
    /\ UNCHANGED <<env, pc, handles, src_files, test_files, header_files,
                   ui_assets, src_cmake, tests_cmake, all_content,
                   html_content, unused_src, unused_tests, unused_headers,
                   call>>

\* The loop over ui_assets is exhausted: main returns.
Return ==
    /\ pc = "loop_assets"
    /\ it.assets = Len(ui_assets)
    /\ pc' = "done"
    /\ UNCHANGED <<env, out, handles, src_files, test_files, header_files,
                   ui_assets, src_cmake, tests_cmake, all_content,
                   html_content, unused_src, unused_tests, unused_headers,
                   unused_assets, it, call>>

Next ==
    \/ Start
    \/ ReadFileOpen
    \/ ReadFileMissing
    \/ ReadFileRead
    \/ CheckSrc
    \/ PrintTestsHeader
    \/ CheckTest
    \/ PrintHeadersHeader
    \/ AggOpen
    \/ AggRead
    \/ AggDone
    \/ CheckHeader
    \/ PrintAssetsHeader
    \/ HtmlOpen
    \/ HtmlRead
    \/ HtmlDone
    \/ CheckAsset
    \/ Return

Spec == Init /\ [][Next]_vars

\* ------------------------------------------- the checkers called directly

\* The texts of at most n tokens.
RECURSIVE Texts(_, _)
Texts(tokens, n) ==
    IF n = 0 THEN {""}
    ELSE LET shorter == Texts(tokens, n - 1) IN
         shorter \cup {t \o k : t \in shorter, k \in tokens}

CmakeArgs == {"src/a.c", "src/d/a.c", "tests/a.c", "tests/d/a.c", "lib/a.c",
              "a.c", "src/", "tests/", "srcs/a.c", "src", "src/tests/a.c"}

CmakeTokens == {"a.c", "d/", "/", "src", "tests", "\n"}

HeaderArgs == {"include/a.h", "include/d/a.h", "src/a.h", "a.h", "include/",
               "includes/a.h", "include"}

HeaderTokens == {"a.h", "d/a.h", "\"", "<", ">"}

\* The module is imported and one checker is about to be called.
InitCheckers ==
    /\ fs = <<>> /\ walk = <<>>
    /\ pc = "imported"
    /\ Fresh
    /\ \/ \E p \in CmakeArgs, t \in Texts(CmakeTokens, MaxTokens) :
             call = [fn |-> "check_cmake_usage", path |-> p, text |-> t,
                     done |-> FALSE, ret |-> FALSE]
       \/ \E p \in HeaderArgs, t \in Texts(HeaderTokens, MaxTokens) :
             call = [fn |-> "check_header_usage", path |-> p, text |-> t,
                     done |-> FALSE, ret |-> FALSE]

CallCheckCmake ==
    /\ call.fn = "check_cmake_usage" /\ ~call.done
    /\ call' = [call EXCEPT !.done = TRUE,
                            !.ret = check_cmake_usage(call.path, call.text)]
    /\ UNCHANGED <<env, pc, out, handles, src_files, test_files, header_files,
                   ui_assets, src_cmake, tests_cmake, all_content,
                   html_content, unused_src, unused_tests, unused_headers,
                   unused_assets, it>>

CallCheckHeader ==
    /\ call.fn = "check_header_usage" /\ ~call.done
    /\ call' = [call EXCEPT !.done = TRUE,
                            !.ret = check_header_usage(call.path, call.text)]
    /\ UNCHANGED <<env, pc, out, handles, src_files, test_files, header_files,
                   ui_assets, src_cmake, tests_cmake, all_content,
                   html_content, unused_src, unused_tests, unused_headers,
                   unused_assets, it>>

NextCheckers == CallCheckCmake \/ CallCheckHeader

SpecCheckers == InitCheckers /\ [][NextCheckers]_vars

\* ------------------------------------------------- what the claims speak of

\* needle is a literal substring of hay.
Occurs(needle, hay) ==
    \E i \in 0..Len(hay) : \E j \in i..Len(hay) : SubSeq(hay, i + 1, j) = needle

Elems(s) == {s[i] : i \in 1..Len(s)}

NoRepeats(s) == \A i, j \in 1..Len(s) : s[i] = s[j] => i = j

IsPrefix(s, t) == Len(s) <= Len(t) /\ s = SubSeq(t, 1, Len(s))

Ended == pc \in {"done", "aborted"}

BuildFiles == {"src/CMakeLists.txt", "tests/CMakeLists.txt"}

\* The text of the build file p, empty when the file is missing.
BuildText(p) == IF p \in DOMAIN fs THEN fs[p].text ELSE ""

\* The files of the tree under directory d whose name has one of the suffixes.
Matching(d, sufs) ==
    {p \in DOMAIN fs : StartsWith(p, d \o "/") /\ EndsWithAny(basename(p), sufs)}

\* File p lies in a directory called name, at any depth.
InDirNamed(p, name) ==
    \E X \in AncestorsOrSelf(dirname(p)) : basename(X) = name

\* The index of the first print of line x, 0 when it was not printed.
PosOf(x) ==
    IF \E i \in 1..Len(out) : out[i] = x
    THEN CHOOSE i \in 1..Len(out) : out[i] = x /\ \A j \in 1..(i - 1) : out[j] # x
    ELSE 0

\* What was printed after header h and before header nxt (to the end of the
\* output when nxt was not printed).
Section(h, nxt) ==
    IF PosOf(h) = 0 THEN <<>>
    ELSE SubSeq(out, PosOf(h) + 1,
                IF PosOf(nxt) = 0 THEN Len(out) ELSE PosOf(nxt) - 1)

Headers == <<HeaderSrc, HeaderTests, HeaderHdrs, HeaderAssets>>

\* -------------------------------------------------------------- claims

\* C1: check_cmake_usage(p, c) is true iff p[4:] occurs in c when p starts
\* with "src/", true iff p[6:] occurs in c when p starts with "tests/" (and
\* not with "src/"), and false when p starts with neither.
C1_CmakeUsage ==
    (call.fn = "check_cmake_usage" /\ call.done) =>
        call.ret = (IF StartsWith(call.path, "src/")
                    THEN Occurs(SliceFrom(call.path, 4), call.text)
                    ELSE IF StartsWith(call.path, "tests/")
                    THEN Occurs(SliceFrom(call.path, 6), call.text)
                    ELSE FALSE)

\* The build file names the file's base name but not its path below src/:
\* the file is not used.
C1_Witness ==
    /\ call.fn = "check_cmake_usage" /\ call.done
    /\ call.path = "src/d/a.c"
    /\ Occurs("a.c", call.text) /\ ~Occurs("d/a.c", call.text)
    /\ call.ret = FALSE

\* C2: check_header_usage(h, a) is, when h starts with "include/", true iff a
\* holds h[8:] in double quotes or in angle brackets, and is true for any
\* other h.
C2_HeaderUsage ==
    (call.fn = "check_header_usage" /\ call.done) =>
        call.ret = (IF StartsWith(call.path, "include/")
                    THEN \/ Occurs("\"" \o SliceFrom(call.path, 8) \o "\"", call.text)
                         \/ Occurs("<" \o SliceFrom(call.path, 8) \o ">", call.text)
                    ELSE TRUE)

\* The header is included in angle brackets only.
C2_Witness ==
    /\ call.fn = "check_header_usage" /\ call.done
    /\ call.path = "include/a.h"
    /\ Occurs("<a.h>", call.text) /\ ~Occurs("\"a.h\"", call.text)
    /\ call.ret = TRUE

\* C3: an enumerated asset is reported unused iff its base name occurs in no
\* .html file under ui/ (no file name holds a newline, so an occurrence in
\* the concatenation lies in one file); what other scripts and stylesheets
\* contain plays no part.  At the end of a run every asset under ui/static
\* has been judged.
C3_AssetUnusedIffNotInMarkup ==
    /\ \A k \in 1..it.assets :
          ui_assets[k] \in Elems(unused_assets)
              <=> ~\E h \in DOMAIN fs :
                       /\ StartsWith(h, "ui/") /\ EndsWith(basename(h), ".html")
                       /\ Occurs(basename(ui_assets[k]), fs[h].text)
    /\ pc = "done" =>
          /\ it.assets = Len(ui_assets)
          /\ Elems(ui_assets) = Matching("ui/static", {".js", ".css"})

\* A stylesheet that a script names and no markup file does is reported.
C3_Witness ==
    /\ pc = "done"
    /\ "ui/static/s.css" \in Elems(unused_assets)
    /\ \E p \in DOMAIN fs : EndsWith(p, ".js") /\ Occurs("s.css", fs[p].text)
    /\ \E p \in DOMAIN fs : EndsWith(p, ".html")

\* C4: when a build file is missing, the run continues to the later sections
\* and every source file enumerated under that root is printed in that root's
\* section and is in that root's unused list.
C4_MissingBuildFile ==
    Ended =>
        /\ "src/CMakeLists.txt" \notin DOMAIN fs =>
              /\ pc = "done"
              /\ Elems(unused_src) = Matching("src", {".cpp", ".c"})
              /\ Section(HeaderSrc, HeaderTests) = unused_src
        /\ "tests/CMakeLists.txt" \notin DOMAIN fs =>
              /\ pc = "done"
              /\ Elems(unused_tests) = Matching("tests", {".cpp", ".c"})
              /\ Section(HeaderTests, HeaderHdrs) = unused_tests

\* C5: a build file with bytes that do not decode is read as best-effort
\* text; the run does not abort and reaches all four sections.
C5_BadBytesTolerated ==
    (\E p \in BuildFiles \cap DOMAIN fs : fs[p].bad) =>
        /\ pc # "aborted"
        /\ pc \notin {"start", "read_src", "read_src_open"} =>
              src_cmake = BuildText("src/CMakeLists.txt")
        /\ pc = "done" => \A k \in 1..4 : PosOf(Headers[k]) # 0

\* C6: in every run the four headers are printed once each, in order, and the
\* unused paths of each section between its header and the next.
C6_OutputOrder ==
    Ended =>
        out = <<HeaderSrc>> \o unused_src \o <<HeaderTests>> \o unused_tests
              \o <<HeaderHdrs>> \o unused_headers \o <<HeaderAssets>> \o unused_assets

\* No file matches in any root and both build files are missing.
EmptyProject ==
    /\ BuildFiles \cap DOMAIN fs = {}
    /\ Matching("src", {".cpp", ".c"}) = {}
    /\ Matching("tests", {".cpp", ".c"}) = {}
    /\ Matching("include", {".h", ".hpp"}) = {}
    /\ Matching("ui/static", {".js", ".css"}) = {}
    /\ Matching("ui", {".html"}) = {}

\* C7: on a tree with no matching file in any root the run raises nothing,
\* goes on until main returns, and prints the four headers and nothing else.
C7_EmptyTree ==
    EmptyProject =>
        /\ pc # "aborted"
        /\ IsPrefix(out, Headers)
        /\ pc = "done" => out = Headers
        /\ pc # "done" => ENABLED Next

\* Such a run has ended, on a tree that is not empty.
C7_Witness ==
    /\ EmptyProject
    /\ pc = "done"
    /\ "src/notes.txt" \in DOMAIN fs

\* C8: at every point each result list is the subsequence, in enumeration
\* order, of the candidates its loop has consumed that its checker found not
\* referenced; it is what its section of the output holds; it has no path
\* twice; and no two lists share a path.
C8_ResultLists ==
    LET NotInSrcCmake(f)   == ~check_cmake_usage(f, src_cmake)
        NotInTestsCmake(f) == ~check_cmake_usage(f, tests_cmake)
        NotIncluded(h)     == ~check_header_usage(h, all_content)
        NotInMarkup(a)     == ~Occurs(basename(a), html_content)
    IN  /\ unused_src = SelectSeq(SubSeq(src_files, 1, it.src), NotInSrcCmake)
        /\ unused_tests = SelectSeq(SubSeq(test_files, 1, it.tests), NotInTestsCmake)
        /\ unused_headers = SelectSeq(SubSeq(header_files, 1, it.headers), NotIncluded)
        /\ unused_assets = SelectSeq(SubSeq(ui_assets, 1, it.assets), NotInMarkup)
        /\ Section(HeaderSrc, HeaderTests) = unused_src
        /\ Section(HeaderTests, HeaderHdrs) = unused_tests
        /\ Section(HeaderHdrs, HeaderAssets) = unused_headers
        /\ Section(HeaderAssets, "") = unused_assets
        /\ NoRepeats(unused_src \o unused_tests \o unused_headers \o unused_assets)

\* The loop over src_files has consumed a used file and an unused one.
C8_Witness ==
    /\ pc = "loop_src"
    /\ it.src = 2
    /\ Len(unused_src) = 1
    /\ unused_src[1] = src_files[2]

\* C9: a header under include/ that a .cpp, .c, .h or .hpp file outside every
\* build and node_modules directory includes by its include/-relative path is
\* not reported unused.
C9_IncludedHeaderNotReported ==
    pc = "done" =>
        \A h \in Elems(header_files) :
            (\E f \in DOMAIN fs :
                /\ EndsWithAny(basename(f), {".cpp", ".c", ".h", ".hpp"})
                /\ ~InDirNamed(f, "build") /\ ~InDirNamed(f, "node_modules")
                /\ \/ Occurs("\"" \o SliceFrom(h, 8) \o "\"", fs[f].text)
                   \/ Occurs("<" \o SliceFrom(h, 8) \o ">", fs[f].text))
            => h \notin Elems(unused_headers)

\* C10: at most one file is open at any time, a file is open only between
\* its open and its read, and none is open once the run has ended, whether
\* main returned or a read raised.
C10_HandlesReleased ==
    /\ Len(handles) <= 1
    /\ handles # <<>> =>
          pc \in {"read_src_open", "read_tests_open", "agg_open", "html_open"}
    /\ Ended => handles = <<>>

\* A read raised on bytes that do not decode, and the run has ended.
C10_Witness ==
    /\ pc = "aborted"
    /\ \E p \in BuildFiles \cap DOMAIN fs : fs[p].bad
    /\ handles = <<>>

=============================================================================
